---- MODULE Spec2Model ----
(***************************************************************************)
(* Model of the resource-aware batch machinery of the MWA polarisation     *)
(* calibration pipeline:                                                   *)
(*   - correct_pb.py : correctpb_spectral_images (capacity planning,       *)
(*     partition of images into --save_pb / --pb_jones_file commands, two  *)
(*     joblib Parallel phases, final move and count), run_cmd;             *)
(*   - basic_func.py : create_batch_script_nonhpc (the generated inner and *)
(*     outer shell scripts and their marker files),                        *)
(*     check_resource_availability and wait_for_resources.                 *)
(* Sizes are whole GB, percentages whole percent.                          *)
(***************************************************************************)
EXTENDS Integers, Sequences, FiniteSets, TLC

VARIABLES
    \* ---- correctpb_spectral_images: arguments and host --------------------
    ncpu_arg,        \* argument ncpu (-1 = auto)
    mem_arg,         \* argument mem in GB (-1 = auto)
    cpu_count,       \* psutil.cpu_count(logical=True)
    cpu_percent,     \* psutil.cpu_percent()
    available_mem,   \* psutil.virtual_memory().available in GB
    file_size,       \* os.path.getsize(images[0]) in GB
    images,          \* sorted(glob(imagedir/*image.fits)): sequence of names
    \* ---- correctpb_spectral_images: locals --------------------------------
    pc,              \* position in the function
    run,             \* which invocation over the same imagedir (1, 2, ...)
    n_jobs,
    per_job_cpu,
    error,           \* exception raised out of the function, "none" if none
    cmd_list_1,
    cmd_list_2,
    next,            \* index of the next command joblib dispatches
    running,         \* indices of the commands executing in workers
    total_images,    \* returned count
    \* ---- the image directory on disk --------------------------------------
    pbcor_images,    \* image names whose <name>_pbcor.fits is in pbcor_images/
    imagedir_out,    \* image names whose <name>_pbcor.fits is in imagedir/
    pbs,             \* coarse channels whose pbs/pbfile_<coch>.npy exists
    \* ---- observations kept for the properties -----------------------------
    submitted,       \* commands handed to run_cmd in this run, with whether
                     \* the artifact of their channel existed at that time
    job_failed,      \* some command of this run exited non-zero
    prev_result,     \* how the previous run ended: "none", "raised", "failed" (returned,
                     \* some command exited non-zero) or "clean"
    shortcut,        \* this run printed "No images to correct"
    \* ---- create_batch_script_nonhpc and the scripts it writes -------------
    files,           \* the .Running_* and .Finished_* files present in basedir
    scripts,         \* the <basename>.batch and <basename>_cmd.batch files present
    npids,           \* number of lines of basedir/pids.txt
    opc,             \* per basename: position of the outer launcher script
    spc,             \* per basename: position of the inner command script
    status,          \* per basename: $? of the inner script's shell
    exit_code,       \* per basename: the shell variable exit_code
    cmd_status,      \* per basename: exit status of the job's command (-1: none yet)
    created,         \* per basename: calls of create_batch_script_nonhpc so far
    \* ---- wait_for_resources ----------------------------------------------
    cpu_threshold,
    memory_threshold,
    w_pc,            \* position in wait_for_resources
    w_files,         \* number of files matching basename* on disk now
    w_start,         \* len(running_file_list)
    w_new,           \* len(new_running_file_list) of the last iteration
    w_count,         \* the local count
    w_printed,       \* times "Waiting for free hardware resources" was printed
    w_ret,           \* return value (0 while not returned)
    snapshot,        \* what psutil reported in the last iteration
    resource_available,
    \* ---- main ------------------------------------------------------------
    cmdline,         \* what optparse makes of sys.argv
    options,         \* the parsed options: which are given, how they evaluate
    m_pc,            \* position in main
    result           \* the status the process exits with (-1 while running)

planVars == <<ncpu_arg, mem_arg, cpu_count, cpu_percent, available_mem, file_size>>
execVars == <<images, pc, run, n_jobs, per_job_cpu, error, cmd_list_1, cmd_list_2,
              next, running, total_images, pbcor_images, imagedir_out, pbs,
              submitted, job_failed, prev_result, shortcut>>

scriptVars == <<files, scripts, npids, opc, spc, status, exit_code, cmd_status, created>>
waitVars == <<cpu_threshold, memory_threshold, w_pc, w_files, w_start, w_new,
              w_count, w_printed, w_ret, snapshot, resource_available>>

mainVars == <<cmdline, options, m_pc, result>>

vars == <<planVars, execVars, scriptVars, waitVars, mainVars>>

--------------------------------------------------------------------------
(* Bounds of the model. *)

MaxCores == 4
MaxMemGB == 8
MaxFileGB == 2
MaxImages == 4
MaxRuns == 2
MaxLaunches == 2
MaxFiles == 3
MaxPolls == 2

--------------------------------------------------------------------------
(* Helpers. *)

Abs(x) == IF x < 0 THEN -x ELSE x

\* Python's int(a / b) for b # 0: the quotient truncated toward zero.
TruncDiv(a, b) ==
    LET q == Abs(a) \div Abs(b)
    IN  IF (a < 0) = (b < 0) THEN q ELSE -q

Range(s) == {s[i] : i \in 1..Len(s)}

--------------------------------------------------------------------------
(* File names.  A basename is the sequence of its "-"-separated parts.     *)

\* All names glob("*image.fits") can return here, in sorted() order
\* ("M" sorts before "c").
Universe ==
    << <<"obs", "MFS", "image.fits">>,
       <<"obs", "coch", "1", "ch1", "image.fits">>,
       <<"obs", "coch", "1", "ch2", "image.fits">>,
       <<"obs", "coch", "1", "ch3", "image.fits">>,
       <<"obs", "coch", "2", "ch1", "image.fits">>,
       <<"obs", "coch", "2", "ch2", "image.fits">> >>

\* "MFS" not in os.path.basename(imagename)
IsMFS(name) == \E i \in 1..Len(name) : name[i] = "MFS"

\* os.path.basename(imagename).split("-coch-")[-1].split("-")[0]
Coch(name) ==
    LET at == {i \in 2..(Len(name) - 1) : name[i] = "coch"}
    IN  IF at = {} THEN name[1]
        ELSE name[(CHOOSE i \in at : \A j \in at : j <= i) + 1]

\* The sorted sub-lists of Universe with at most MaxImages names.
RECURSIVE Pick(_, _)
Pick(idx, s) ==
    IF idx > Len(Universe) THEN <<>>
    ELSE IF idx \in s THEN <<Universe[idx]>> \o Pick(idx + 1, s)
    ELSE Pick(idx + 1, s)

ImageLists ==
    {Pick(1, s) : s \in {t \in SUBSET (1..Len(Universe)) : Cardinality(t) <= MaxImages}}

--------------------------------------------------------------------------
(* Capacity planning, correct_pb.py lines 52-69. *)

\* lines 52-55
EffectiveCpu(ncpu0, count, pct) ==
    IF ncpu0 = -1 THEN TruncDiv(count * (100 - pct), 100) ELSE ncpu0

\* lines 56-60
EffectiveMem(mem0, avail) ==
    IF mem0 = -1 THEN avail
    ELSE IF mem0 > avail THEN avail
    ELSE mem0

\* lines 63-66
MinJobs(ncpu, max_jobs) == IF ncpu < max_jobs THEN ncpu ELSE max_jobs

\* PerJobCpu rounding the quotient up instead of truncating it.
PerJobCpu_RoundsUp(ncpu, njobs) ==
    LET c == TruncDiv(ncpu + njobs - 1, njobs) IN IF c < 1 THEN 1 ELSE c

\* lines 67-69
PerJobCpu(ncpu, njobs) ==
    LET c == TruncDiv(ncpu, njobs) IN IF c < 1 THEN 1 ELSE c

\* lines 52-69 as a whole: the exception raised, or the plan.
PlanOf(imgs, ncpu0, mem0, count, pct, avail, fsize) ==
    LET ncpu == EffectiveCpu(ncpu0, count, pct)
        mem  == EffectiveMem(mem0, avail)
    IN  IF imgs = <<>>
        THEN [error |-> "IndexError", n_jobs |-> 0, per_job_cpu |-> 0]
        ELSE IF 3 * fsize = 0
        THEN [error |-> "ZeroDivisionError", n_jobs |-> 0, per_job_cpu |-> 0]
        ELSE LET max_jobs == TruncDiv(mem, 3 * fsize)
                 nj       == MinJobs(ncpu, max_jobs)
             IN  IF nj = 0
                 THEN [error |-> "ZeroDivisionError", n_jobs |-> nj, per_job_cpu |-> 0]
                 ELSE [error |-> "none", n_jobs |-> nj,
                       per_job_cpu |-> PerJobCpu(ncpu, nj)]

Plan ==
    /\ pc = "start"
    /\ LET p == PlanOf(images, ncpu_arg, mem_arg, cpu_count, cpu_percent,
                       available_mem, file_size)
       IN  /\ error' = p.error
           /\ n_jobs' = p.n_jobs
           /\ per_job_cpu' = p.per_job_cpu
           /\ pc' = IF p.error = "none" THEN "planned" ELSE "raised"
    /\ UNCHANGED <<scriptVars, waitVars, mainVars, planVars, images, run, cmd_list_1, cmd_list_2, next, running,
                   total_images, pbcor_images, imagedir_out, pbs, submitted,
                   job_failed, prev_result, shortcut>>

--------------------------------------------------------------------------
(* Partition loop, correct_pb.py lines 73-109. *)

\* Pending with the existence test of lines 94-100 left out.
Pending_NoSkip(name, outs, arts) == TRUE

\* lines 94-100: the item is processed unless both files exist
Pending(name, outs, arts) ==
    (name \notin outs) \/ (Coch(name) \notin arts)

\* lines 78-93 plus 102-104 / 108: the command string, by its parts
Cmd(name, threads, flag) ==
    [imagename |-> name, num_threads |-> threads, flag |-> flag, coch |-> Coch(name)]

\* AddCmd with the test of line 101 always false: every item saves its beam.
AddCmd_AlwaysSave(name, threads, acc) ==
    [acc EXCEPT !.pb_coch = @ \cup {Coch(name)},
                !.l1 = Append(@, Cmd(name, threads, "save_pb"))]

\* lines 101-109: extend the lists with the command of one pending item
AddCmd(name, threads, acc) ==
    IF Coch(name) \in acc.pb_coch
    THEN [acc EXCEPT !.l2 = Append(@, Cmd(name, threads, "pb_jones_file"))]
    ELSE [acc EXCEPT !.pb_coch = @ \cup {Coch(name)},
                     !.l1 = Append(@, Cmd(name, threads, "save_pb"))]

\* lines 73-109
RECURSIVE PartitionLoop(_, _, _, _, _, _)
PartitionLoop(i, imgs, threads, outs, arts, acc) ==
    IF i > Len(imgs) THEN acc
    ELSE LET name == imgs[i]
             acc2 == IF ~IsMFS(name) /\ Pending(name, outs, arts)
                     THEN AddCmd(name, threads, acc)
                     ELSE acc
         IN  PartitionLoop(i + 1, imgs, threads, outs, arts, acc2)

Partition ==
    /\ pc = "planned"
    /\ LET r == PartitionLoop(1, images, per_job_cpu, pbcor_images, pbs,
                              [l1 |-> <<>>, l2 |-> <<>>, pb_coch |-> {}])
       IN  /\ cmd_list_1' = r.l1
           /\ cmd_list_2' = r.l2
    /\ pc' = "partitioned"
    /\ UNCHANGED <<scriptVars, waitVars, mainVars, planVars, images, run, n_jobs, per_job_cpu, error, next, running,
                   total_images, pbcor_images, imagedir_out, pbs, submitted,
                   job_failed, prev_result, shortcut>>

--------------------------------------------------------------------------
(* Lines 110-128: the two joblib phases, the move and the count. *)

\* lines 110-111 and 126-128
NothingToDo ==
    /\ pc = "partitioned"
    /\ Len(cmd_list_1) = 0 /\ Len(cmd_list_2) = 0
    /\ shortcut' = TRUE
    /\ total_images' = Cardinality(pbcor_images)
    /\ pc' = "returned"
    /\ UNCHANGED <<scriptVars, waitVars, mainVars, planVars, images, run, n_jobs, per_job_cpu, error, cmd_list_1,
                   cmd_list_2, next, running, pbcor_images, imagedir_out, pbs,
                   submitted, job_failed, prev_result>>

\* lines 112-114: enter the first Parallel block (skipped when cmd_list_1 is empty)
BeginPrimaries ==
    /\ pc = "partitioned"
    /\ ~(Len(cmd_list_1) = 0 /\ Len(cmd_list_2) = 0)
    /\ pc' = IF Len(cmd_list_1) > 0 THEN "primaries" ELSE "secondaries"
    /\ next' = 1
    /\ running' = {}
    /\ UNCHANGED <<scriptVars, waitVars, mainVars, planVars, images, run, n_jobs, per_job_cpu, error, cmd_list_1,
                   cmd_list_2, total_images, pbcor_images, imagedir_out, pbs,
                   submitted, job_failed, prev_result, shortcut>>

CurrentList == IF pc = "primaries" THEN cmd_list_1 ELSE cmd_list_2

\* joblib's worker count for Parallel(n_jobs=n): n workers for n >= 1, and
\* cpu_count + 1 + n (at least 1) for n < 0.
Workers(n) ==
    IF n >= 1 THEN n
    ELSE IF cpu_count + 1 + n >= 1 THEN cpu_count + 1 + n ELSE 1

\* lines 115-116 / 119-120: joblib hands the next command to a free worker,
\* which calls run_cmd (lines 11-14: os.system(cmd) starts the command).
Dispatch ==
    /\ pc \in {"primaries", "secondaries"}
    /\ next <= Len(CurrentList)
    /\ Cardinality(running) < Workers(n_jobs)
    /\ running' = running \cup {next}
    /\ next' = next + 1
    /\ submitted' = submitted \cup
           {[cmd |-> CurrentList[next], artifact |-> CurrentList[next].coch \in pbs]}
    /\ UNCHANGED <<scriptVars, waitVars, mainVars, planVars, images, pc, run, n_jobs, per_job_cpu, error, cmd_list_1,
                   cmd_list_2, total_images, pbcor_images, imagedir_out, pbs,
                   job_failed, prev_result, shortcut>>

\* Finish with run_cmd raising on a non-zero status, which ends the batch.
Finish_RaisesOnFailure(j, ok) ==
    /\ pc \in {"primaries", "secondaries"}
    /\ j \in running
    /\ running' = running \ {j}
    /\ LET c == CurrentList[j]
       IN  IF ok
           THEN /\ imagedir_out' = imagedir_out \cup {c.imagename}
                /\ pbs' = IF c.flag = "save_pb" THEN pbs \cup {c.coch} ELSE pbs
                /\ UNCHANGED <<job_failed, pc, error>>
           ELSE /\ job_failed' = TRUE
                /\ pc' = "raised"
                /\ error' = "CalledProcessError"
                /\ UNCHANGED <<imagedir_out, pbs>>
    /\ UNCHANGED <<scriptVars, waitVars, mainVars, planVars, images, run, n_jobs, per_job_cpu, cmd_list_1,
                   cmd_list_2, next, total_images, pbcor_images, submitted,
                   prev_result, shortcut>>

\* The command of run_cmd ends (lines 14-16).  mwapb.py is external: it either
\* succeeds, leaving <outfile>.fits in imagedir (and the artifact, with
\* --save_pb), or exits non-zero leaving nothing.  run_cmd returns the status
\* and nothing reads it.
Finish(j, ok) ==
    /\ pc \in {"primaries", "secondaries"}
    /\ j \in running
    /\ running' = running \ {j}
    /\ LET c == CurrentList[j]
       IN  IF ok
           THEN /\ imagedir_out' = imagedir_out \cup {c.imagename}
                /\ pbs' = IF c.flag = "save_pb" THEN pbs \cup {c.coch} ELSE pbs
                /\ UNCHANGED job_failed
           ELSE /\ job_failed' = TRUE
                /\ UNCHANGED <<imagedir_out, pbs>>
    /\ UNCHANGED <<scriptVars, waitVars, mainVars, planVars, images, pc, run, n_jobs, per_job_cpu, error, cmd_list_1,
                   cmd_list_2, next, total_images, pbcor_images, submitted,
                   prev_result, shortcut>>

\* lines 116-118: Parallel returns when every command of cmd_list_1 has ended
EndPrimaries ==
    /\ pc = "primaries"
    /\ next > Len(cmd_list_1)
    /\ running = {}
    /\ pc' = "secondaries"
    /\ next' = 1
    /\ UNCHANGED <<scriptVars, waitVars, mainVars, planVars, images, run, n_jobs, per_job_cpu, error, cmd_list_1,
                   cmd_list_2, running, total_images, pbcor_images, imagedir_out,
                   pbs, submitted, job_failed, prev_result, shortcut>>

\* MoveAndReturn without waiting for the workers of the second Parallel.
MoveAndReturn_NoDrain ==
    /\ pc = "secondaries"
    /\ next > Len(cmd_list_2)
    /\ pbcor_images' = pbcor_images \cup imagedir_out
    /\ imagedir_out' = {}
    /\ total_images' = Cardinality(pbcor_images \cup imagedir_out)
    /\ pc' = "returned"
    /\ UNCHANGED <<scriptVars, waitVars, mainVars, planVars, images, run, n_jobs, per_job_cpu, error, cmd_list_1,
                   cmd_list_2, next, running, pbs, submitted, job_failed,
                   prev_result, shortcut>>

\* lines 118-128: the second Parallel has returned (or cmd_list_2 is empty);
\* mv imagedir/*pbcor.fits pbcor_images/, count pbcor_images/*, return.
MoveAndReturn ==
    /\ pc = "secondaries"
    /\ next > Len(cmd_list_2)
    /\ running = {}
    /\ pbcor_images' = pbcor_images \cup imagedir_out
    /\ imagedir_out' = {}
    /\ total_images' = Cardinality(pbcor_images \cup imagedir_out)
    /\ pc' = "returned"
    /\ UNCHANGED <<scriptVars, waitVars, mainVars, planVars, images, run, n_jobs, per_job_cpu, error, cmd_list_1,
                   cmd_list_2, next, running, pbs, submitted, job_failed,
                   prev_result, shortcut>>

\* The available memory psutil can report on the host of the whole function.
HostMem == {5, 8}

\* The function is called again over the same image directory, with the same
\* arguments; psutil reads the available memory afresh.
NextRun ==
    /\ pc \in {"returned", "raised"}
    /\ run < MaxRuns
    /\ run' = run + 1
    /\ prev_result' = IF pc = "raised" THEN "raised"
                      ELSE IF job_failed THEN "failed" ELSE "clean"
    /\ pc' = "start"
    /\ n_jobs' = 0 /\ per_job_cpu' = 0 /\ error' = "none"
    /\ cmd_list_1' = <<>> /\ cmd_list_2' = <<>>
    /\ next' = 1 /\ running' = {}
    /\ total_images' = 0
    /\ submitted' = {} /\ job_failed' = FALSE /\ shortcut' = FALSE
    /\ available_mem' \in HostMem
    /\ UNCHANGED <<scriptVars, waitVars, mainVars, ncpu_arg, mem_arg, cpu_count, cpu_percent,
                   file_size, images,
                   pbcor_images, imagedir_out, pbs>>

--------------------------------------------------------------------------
(* create_batch_script_nonhpc, basic_func.py lines 263-299, and the two    *)
(* scripts it writes.  A file name is the sequence of its parts, a         *)
(* basename the sequence of its characters.                                *)

\* The basenames of the jobs of one basedir.
Basenames == { <<"j", "1">>, <<"j", "1", "0">>, <<"k", "2">> }

\* Exit statuses the job's command can end with.
ExitCodes == {0, 1}

\* lines 281-282, 284-285
RunningFile(b)  == <<".Running_">> \o b
FinishedFile(b) == <<".Finished_">> \o b
ErrorFile(b)    == FinishedFile(b) \o <<"_error">>
SuccessFile(b)  == FinishedFile(b) \o <<"_0">>

IsPrefix(p, f) == Len(p) <= Len(f) /\ SubSeq(f, 1, Len(p)) = p

\* line 283: rm -rf <finished_touch_file>*  (the shell expands the glob)
RemoveStale(b, fs) == {f \in fs : ~IsPrefix(FinishedFile(b), f)}

BatchFile(b) == <<b, ".batch">>
CmdBatch(b)  == <<b, "_cmd.batch">>

\* create_batch_script_nonhpc(cmd, basedir, basename), called for a job whose
\* previous scripts (if any) have ended.
CreateBatchScript(b) ==
    /\ created[b] < MaxLaunches
    /\ opc[b] \in {"none", "ended"}
    /\ spc[b] \in {"none", "done"}
    /\ created' = [created EXCEPT ![b] = @ + 1]
    /\ files' = RemoveStale(b, files)
    /\ scripts' = scripts \cup {BatchFile(b), CmdBatch(b)}
    /\ opc' = [opc EXCEPT ![b] = "written"]
    /\ spc' = [spc EXCEPT ![b] = "none"]
    /\ status' = [status EXCEPT ![b] = 0]
    /\ exit_code' = [exit_code EXCEPT ![b] = 0]
    /\ cmd_status' = [cmd_status EXCEPT ![b] = -1]
    /\ UNCHANGED npids
    /\ UNCHANGED <<planVars, execVars, waitVars, mainVars>>

\* Outer script (line 287): nohup sh <cmd_batch> > log 2>&1 &  ;  echo $! >> pids.txt
OuterLaunch(b) ==
    /\ opc[b] = "written"
    /\ BatchFile(b) \in scripts /\ CmdBatch(b) \in scripts
    /\ opc' = [opc EXCEPT ![b] = "launched"]
    /\ spc' = [spc EXCEPT ![b] = "touch"]
    /\ npids' = npids + 1
    /\ UNCHANGED <<files, scripts, status, exit_code, cmd_status, created>>
    /\ UNCHANGED <<planVars, execVars, waitVars, mainVars>>

\* Outer script (line 287): sleep 2 ; rm -rf <batch_file> ; rm -rf <cmd_batch>
OuterCleanup(b) ==
    /\ opc[b] = "launched"
    /\ scripts' = scripts \ {BatchFile(b), CmdBatch(b)}
    /\ opc' = [opc EXCEPT ![b] = "ended"]
    /\ UNCHANGED <<files, npids, spc, status, exit_code, cmd_status, created>>
    /\ UNCHANGED <<planVars, execVars, waitVars, mainVars>>

\* Inner script (line 286), one shell command per action.
\* touch <running_touch_file>
InnerTouchRunning(b) ==
    /\ spc[b] = "touch"
    /\ files' = files \cup {RunningFile(b)}
    /\ status' = [status EXCEPT ![b] = 0]
    /\ spc' = [spc EXCEPT ![b] = "cmd"]
    /\ UNCHANGED <<scripts, npids, opc, exit_code, cmd_status, created>>
    /\ UNCHANGED <<planVars, execVars, waitVars, mainVars>>

\* <cmd>
InnerCommand(b, code) ==
    /\ spc[b] = "cmd"
    /\ cmd_status' = [cmd_status EXCEPT ![b] = code]
    /\ status' = [status EXCEPT ![b] = code]
    /\ spc' = [spc EXCEPT ![b] = "sleep"]
    /\ UNCHANGED <<files, scripts, npids, opc, exit_code, created>>
    /\ UNCHANGED <<planVars, execVars, waitVars, mainVars>>

\* sleep 2
InnerSleep(b) ==
    /\ spc[b] = "sleep"
    /\ status' = [status EXCEPT ![b] = 0]
    /\ spc' = [spc EXCEPT ![b] = "assign"]
    /\ UNCHANGED <<files, scripts, npids, opc, exit_code, cmd_status, created>>
    /\ UNCHANGED <<planVars, execVars, waitVars, mainVars>>

\* exit_code=$?
InnerAssign(b) ==
    /\ spc[b] = "assign"
    /\ exit_code' = [exit_code EXCEPT ![b] = status[b]]
    /\ status' = [status EXCEPT ![b] = 0]
    /\ spc' = [spc EXCEPT ![b] = "rm"]
    /\ UNCHANGED <<files, scripts, npids, opc, cmd_status, created>>
    /\ UNCHANGED <<planVars, execVars, waitVars, mainVars>>

\* InnerRmRunning leaving the running marker in place.
InnerRmRunning_Skipped(b) ==
    /\ spc[b] = "rm"
    /\ status' = [status EXCEPT ![b] = 0]
    /\ spc' = [spc EXCEPT ![b] = "if"]
    /\ UNCHANGED <<files, scripts, npids, opc, exit_code, cmd_status, created>>
    /\ UNCHANGED <<planVars, execVars, waitVars, mainVars>>

\* rm -rf <running_touch_file>
InnerRmRunning(b) ==
    /\ spc[b] = "rm"
    /\ files' = files \ {RunningFile(b)}
    /\ status' = [status EXCEPT ![b] = 0]
    /\ spc' = [spc EXCEPT ![b] = "if"]
    /\ UNCHANGED <<scripts, npids, opc, exit_code, cmd_status, created>>
    /\ UNCHANGED <<planVars, execVars, waitVars, mainVars>>

\* The marker the if statement of the inner script touches, from $?.
MarkerFor(b, st) == IF st # 0 THEN ErrorFile(b) ELSE SuccessFile(b)

\* if [ $? -ne 0 ] then touch <..._error> else touch <..._0> fi
InnerTouchFinished(b) ==
    /\ spc[b] = "if"
    /\ files' = files \cup {MarkerFor(b, status[b])}
    /\ status' = [status EXCEPT ![b] = 0]
    /\ spc' = [spc EXCEPT ![b] = "done"]
    /\ UNCHANGED <<scripts, npids, opc, exit_code, cmd_status, created>>
    /\ UNCHANGED <<planVars, execVars, waitVars, mainVars>>

--------------------------------------------------------------------------
(* check_resource_availability and wait_for_resources,                     *)
(* basic_func.py lines 733-806.                                            *)

\* psutil readings: cpu_percent, virtual_memory (available, total),
\* swap_memory (free, total); memory in quarters of the total.
Snapshots ==
    {sn \in [cpu : {0, 50, 80, 100}, mem_available : {1, 2, 3}, mem_total : {4},
             swap_free : {0, 2, 3}, swap_total : {0, 4}] :
        sn.swap_free <= sn.swap_total}

\* lines 748-761; a / t * 100 > thr is compared as 100 * a > thr * t.
CheckResourceAvailability(sn, cpu_thr, mem_thr) ==
    LET cpu_available == sn.cpu < 100 - cpu_thr
        memory_sufficient == 100 * sn.mem_available > mem_thr * sn.mem_total
        swap_sufficient ==
            IF sn.swap_total > 0
            THEN 100 * sn.swap_free > mem_thr * sn.swap_total
            ELSE 0 > mem_thr
    IN  cpu_available /\ memory_sufficient /\ swap_sufficient

Return(v) == [returns |-> TRUE, value |-> v]
KeepWaiting == [returns |-> FALSE, value |-> 0]

\* PollOutcome giving up once count has reached MaxPolls.
PollOutcome_GivesUp(avail, start, new, count) ==
    IF count >= MaxPolls THEN Return(start - new)
    ELSE IF avail /\ start = 0 THEN Return(-1)
    ELSE IF avail /\ new < start THEN Return(start - new)
    ELSE KeepWaiting

\* PollOutcome comparing with <= at line 792.
PollOutcome_OrEqual(avail, start, new, count) ==
    IF avail /\ start = 0 THEN Return(-1)
    ELSE IF avail /\ new <= start THEN Return(start - new)
    ELSE KeepWaiting

\* lines 787-805: what one iteration does, return a value or sleep and loop.
PollOutcome(avail, start, new, count) ==
    IF avail /\ start = 0 THEN Return(-1)
    ELSE IF avail /\ new < start THEN Return(start - new)
    ELSE KeepWaiting

\* lines 780-782: time.sleep(5); count = 0; running_file_list = glob(...)
WaitStart ==
    /\ w_pc = "call"
    /\ w_start' = w_files
    /\ w_count' = 0
    /\ w_pc' = "loop"
    /\ UNCHANGED <<cpu_threshold, memory_threshold, w_files, w_new, w_printed,
                   w_ret, snapshot, resource_available>>
    /\ UNCHANGED <<planVars, execVars, scriptVars, mainVars>>

\* lines 783-806: one iteration of the while loop.
Poll(sn) ==
    /\ w_pc = "loop"
    /\ snapshot' = sn
    /\ LET avail == CheckResourceAvailability(sn, cpu_threshold, memory_threshold)
           new   == IF avail THEN w_files ELSE w_new
           out   == PollOutcome(avail, w_start, new, w_count)
       IN  /\ resource_available' = avail
           /\ w_new' = new
           /\ IF out.returns
              THEN /\ w_ret' = out.value
                   /\ w_pc' = "returned"
                   /\ UNCHANGED <<w_count, w_printed>>
              ELSE /\ w_printed' = IF w_count = 0 THEN w_printed + 1 ELSE w_printed
                   /\ w_count' = IF w_count < MaxPolls THEN w_count + 1 ELSE w_count
                   /\ UNCHANGED <<w_ret, w_pc>>
    /\ UNCHANGED <<cpu_threshold, memory_threshold, w_files, w_start>>
    /\ UNCHANGED <<planVars, execVars, scriptVars, mainVars>>

\* Other processes create and remove files matching basename*.
FilesChange(n) ==
    /\ w_pc \in {"call", "loop"}
    /\ n # w_files
    /\ w_files' = n
    /\ UNCHANGED <<cpu_threshold, memory_threshold, w_pc, w_start, w_new, w_count,
                   w_printed, w_ret, snapshot, resource_available>>
    /\ UNCHANGED <<planVars, execVars, scriptVars, mainVars>>

--------------------------------------------------------------------------
(* main of correct_pb.py (lines 132-198). *)

\* What optparse makes of the command line: it accepts it, it rejects it
\* (an unknown option, an option without its value), or it serves --help.
CmdLines == {"accepted", "rejected", "help"}

\* How the option texts evaluate at lines 178-180 (eval, int, float): to
\* values, to an Exception (int("abc")), or to a SystemExit (the text "exit(3)"
\* given to eval).
Evaluations == {"valid", "invalid", "exits"}

Options == [imagedir : BOOLEAN, metafits : BOOLEAN, values : Evaluations]

\* line 170: parser.parse_args().  optparse ends the process itself with
\* status 2 on a command line it rejects and with status 0 after --help.
ParseArgs ==
    /\ m_pc = "main"
    /\ IF cmdline = "rejected"
       THEN m_pc' = "exited" /\ result' = 2
       ELSE IF cmdline = "help"
       THEN m_pc' = "exited" /\ result' = 0
       ELSE m_pc' = "parsed" /\ UNCHANGED result
    /\ UNCHANGED <<planVars, execVars, scriptVars, waitVars, cmdline, options>>

\* lines 171-173, and 197-198 for the return value becoming the exit status.
CheckRequired ==
    /\ m_pc = "parsed"
    /\ IF ~options.imagedir \/ ~options.metafits
       THEN m_pc' = "exited" /\ result' = 1
       ELSE m_pc' = "try" /\ UNCHANGED result
    /\ UNCHANGED <<planVars, execVars, scriptVars, waitVars, cmdline, options>>

\* lines 174-181: the arguments are evaluated inside the try, then the
\* function is called.  An Exception is caught at line 190 (return 1); a
\* SystemExit is not an Exception and ends the process with its own status.
CallCorrectpb ==
    /\ m_pc = "try"
    /\ pc = "idle"
    /\ IF options.values = "valid"
       THEN m_pc' = "called" /\ pc' = "start" /\ UNCHANGED result
       ELSE IF options.values = "invalid"
       THEN m_pc' = "exited" /\ result' = 1 /\ UNCHANGED pc
       ELSE m_pc' = "exited" /\ result' = 3 /\ UNCHANGED pc
    /\ UNCHANGED <<planVars, scriptVars, waitVars, cmdline, options, images, run,
                   n_jobs, per_job_cpu, error, cmd_list_1, cmd_list_2, next,
                   running, total_images, pbcor_images, imagedir_out, pbs,
                   submitted, job_failed, prev_result, shortcut>>

\* MainReturn returning 0 whether or not the function raised.
MainReturn_AlwaysZero ==
    /\ m_pc = "called"
    /\ pc \in {"returned", "raised"}
    /\ result' = 0
    /\ m_pc' = "exited"
    /\ UNCHANGED <<planVars, execVars, scriptVars, waitVars, cmdline, options>>

\* lines 182-193 and 197-198: return 0 after the function returned, return 1
\* from the except clause after it raised; os._exit(result).
MainReturn ==
    /\ m_pc = "called"
    /\ pc \in {"returned", "raised"}
    /\ result' = IF pc = "returned" THEN 0 ELSE 1
    /\ m_pc' = "exited"
    /\ UNCHANGED <<planVars, execVars, scriptVars, waitVars, cmdline, options>>

--------------------------------------------------------------------------
(* Specifications. *)

ExecLocalsRest ==
    /\ run = 1
    /\ n_jobs = 0 /\ per_job_cpu = 0 /\ error = "none"
    /\ cmd_list_1 = <<>> /\ cmd_list_2 = <<>>
    /\ next = 1 /\ running = {}
    /\ total_images = 0
    /\ pbcor_images = {} /\ imagedir_out = {} /\ pbs = {}
    /\ submitted = {} /\ job_failed = FALSE /\ prev_result = "none"
    /\ shortcut = FALSE

ExecLocalsInit == pc = "start" /\ ExecLocalsRest

\* The parts of the state a specification does not use stay as set here.
ExecUnused ==
    /\ ncpu_arg = -1 /\ mem_arg = -1 /\ cpu_count = 1 /\ cpu_percent = 0
    /\ available_mem = 1 /\ file_size = 1
    /\ images = <<>>
    /\ ExecLocalsInit

ScriptLocalsInit ==
    /\ scripts = {}
    /\ npids = 0
    /\ opc = [b \in Basenames |-> "none"]
    /\ spc = [b \in Basenames |-> "none"]
    /\ status = [b \in Basenames |-> 0]
    /\ exit_code = [b \in Basenames |-> 0]
    /\ cmd_status = [b \in Basenames |-> -1]
    /\ created = [b \in Basenames |-> 0]

ScriptUnused == files = {} /\ ScriptLocalsInit

WaitLocalsInit ==
    /\ w_pc = "call"
    /\ w_start = 0 /\ w_new = 0 /\ w_count = 0 /\ w_printed = 0 /\ w_ret = 0
    /\ snapshot = [cpu |-> 0, mem_available |-> 1, mem_total |-> 4,
                   swap_free |-> 0, swap_total |-> 0]
    /\ resource_available = FALSE

WaitUnused ==
    /\ cpu_threshold = 20 /\ memory_threshold = 20
    /\ w_files = 0
    /\ WaitLocalsInit

\* correctpb_spectral_images and the helpers called on their own, not by main.
MainUnused ==
    /\ cmdline = "accepted"
    /\ options = [imagedir |-> TRUE, metafits |-> TRUE, values |-> "valid"]
    /\ m_pc = "called"
    /\ result = -1

\* Capacity planning alone, over every host and every budget within the bounds.
InitPlan ==
    /\ ncpu_arg \in (-2)..MaxCores
    /\ mem_arg \in {-1} \cup (0..MaxMemGB)
    /\ cpu_count \in 1..MaxCores
    /\ cpu_percent \in {0, 25, 50, 100}
    /\ available_mem \in 1..MaxMemGB
    /\ file_size \in 0..MaxFileGB
    /\ images = <<Universe[2]>>
    /\ ExecLocalsInit
    /\ ScriptUnused /\ WaitUnused /\ MainUnused

NextPlan == Plan

SpecPlan == InitPlan /\ [][NextPlan]_vars

\* The whole function, run up to MaxRuns times over one image directory that
\* starts without outputs and artifacts.
InitExec ==
    /\ ncpu_arg \in {-2, -1, 1}
    /\ mem_arg = -1
    /\ cpu_count = 2
    /\ cpu_percent = 0
    /\ available_mem \in HostMem
    /\ file_size \in {1, 2}
    /\ images \in ImageLists
    /\ ExecLocalsInit
    /\ ScriptUnused /\ WaitUnused /\ MainUnused

NextExec ==
    \/ Plan
    \/ Partition
    \/ NothingToDo
    \/ BeginPrimaries
    \/ Dispatch
    \/ \E j \in running, ok \in BOOLEAN : Finish(j, ok)
    \/ EndPrimaries
    \/ MoveAndReturn
    \/ NextRun

SpecExec == InitExec /\ [][NextExec]_vars

\* One invocation of the program: main, and the function when main calls it,
\* over an image directory with at most MainImages images.
MainImages == 2

InitMain ==
    /\ cmdline \in CmdLines
    /\ options \in Options
    /\ m_pc = "main"
    /\ result = -1
    /\ ncpu_arg \in {-1, 1}
    /\ mem_arg = -1
    /\ cpu_count = 2
    /\ cpu_percent = 0
    /\ available_mem \in HostMem
    /\ file_size \in {1, 2}
    /\ images \in {l \in ImageLists : Len(l) <= MainImages}
    /\ pc = "idle" /\ ExecLocalsRest
    /\ ScriptUnused /\ WaitUnused

NextMain ==
    \/ ParseArgs
    \/ CheckRequired
    \/ CallCorrectpb
    \/ Plan
    \/ Partition
    \/ NothingToDo
    \/ BeginPrimaries
    \/ Dispatch
    \/ \E j \in running, ok \in BOOLEAN : Finish(j, ok)
    \/ EndPrimaries
    \/ MoveAndReturn
    \/ MainReturn

SpecMain == InitMain /\ [][NextMain]_vars

\* The jobs of one basedir, each prepared and launched up to MaxLaunches
\* times; markers of earlier runs may lie in basedir at the start.
StaleMarkers == UNION {{ErrorFile(b), SuccessFile(b)} : b \in Basenames}

InitScript ==
    /\ files \in SUBSET StaleMarkers
    /\ ScriptLocalsInit
    /\ ExecUnused /\ WaitUnused /\ MainUnused

NextScript ==
    \/ \E b \in Basenames : CreateBatchScript(b)
    \/ \E b \in Basenames : OuterLaunch(b)
    \/ \E b \in Basenames : OuterCleanup(b)
    \/ \E b \in Basenames : InnerTouchRunning(b)
    \/ \E b \in Basenames, code \in ExitCodes : InnerCommand(b, code)
    \/ \E b \in Basenames : InnerSleep(b)
    \/ \E b \in Basenames : InnerAssign(b)
    \/ \E b \in Basenames : InnerRmRunning(b)
    \/ \E b \in Basenames : InnerTouchFinished(b)

SpecScript == InitScript /\ [][NextScript]_vars

\* One call of wait_for_resources while other processes change the files.
InitWait ==
    /\ cpu_threshold \in {20, 50}
    /\ memory_threshold \in {20, 50}
    /\ w_files \in 0..MaxFiles
    /\ WaitLocalsInit
    /\ ExecUnused /\ ScriptUnused /\ MainUnused

NextWait ==
    \/ WaitStart
    \/ \E sn \in Snapshots : Poll(sn)
    \/ \E n \in 0..MaxFiles : FilesChange(n)

SpecWait == InitWait /\ [][NextWait]_vars

--------------------------------------------------------------------------
(* Properties of correctpb_spectral_images. *)

\* C1: whatever the core count, CPU load, requested CPU and memory budgets
\* and file size, capacity planning completes and gives n_jobs >= 1.
C1_PlanningGivesAtLeastOneJob ==
    pc # "start" => (error = "none" /\ n_jobs >= 1)

\* C2: a --pb_jones_file command of channel K is never handed to run_cmd
\* while pbs/pbfile_K.npy does not exist.
C2_SecondaryOnlyAfterArtifact ==
    \A s \in submitted : s.cmd.flag = "pb_jones_file" => s.artifact

\* The per-channel images of the list, and the ones the loop does not skip.
ChannelImages == {n \in Range(images) : ~IsMFS(n)}

NotSkipped ==
    {n \in ChannelImages : n \notin pbcor_images \/ Coch(n) \notin pbs}

KeysOf(items) == {Coch(n) : n \in items}

PrimariesOfKey(k) == {i \in 1..Len(cmd_list_1) : cmd_list_1[i].coch = k}

ListsWellFormed ==
    /\ \A i \in 1..Len(cmd_list_1) : cmd_list_1[i].flag = "save_pb"
    /\ \A i \in 1..Len(cmd_list_2) :
           /\ cmd_list_2[i].flag = "pb_jones_file"
           /\ Cardinality(PrimariesOfKey(cmd_list_2[i].coch)) = 1

\* C5 as stated: one --save_pb command per distinct channel of the whole
\* list, and len(items) - distinct_keys --pb_jones_file commands.
C5_CountsOverAllItems ==
    pc = "partitioned" =>
        /\ Len(cmd_list_1) = Cardinality(KeysOf(ChannelImages))
        /\ Len(cmd_list_2) =
               Cardinality(ChannelImages) - Cardinality(KeysOf(ChannelImages))
        /\ ListsWellFormed

\* C5, amended: right after the partition loop there is one --save_pb command
\* per distinct channel of the items the loop did not skip, the other
\* non-skipped items each have a --pb_jones_file command, and the channel of
\* every --pb_jones_file command is that of exactly one --save_pb command.
C5_CountsOverNotSkipped ==
    pc = "partitioned" =>
        /\ Len(cmd_list_1) = Cardinality(KeysOf(NotSkipped))
        /\ Len(cmd_list_2) =
               Cardinality(NotSkipped) - Cardinality(KeysOf(NotSkipped))
        /\ ListsWellFormed
        /\ {c.imagename : c \in Range(cmd_list_1) \cup Range(cmd_list_2)} = NotSkipped

C5_Witness ==
    /\ pc = "partitioned"
    /\ Len(cmd_list_1) >= 1
    /\ Len(cmd_list_2) >= 1
    /\ NotSkipped # ChannelImages

C7_SkippedWhenOutputOrArtifactExists ==
    pc = "partitioned" =>
        /\ \A n \in ChannelImages :
               (n \in pbcor_images \/ Coch(n) \in pbs) =>
                   \A c \in Range(cmd_list_1) \cup Range(cmd_list_2) : c.imagename # n
        /\ \A c \in Range(cmd_list_1) : c.coch \notin pbs

\* The CPU budget and the memory-derived job limit of lines 52-62, from the
\* arguments and the host's readings.
BudgetCpu == EffectiveCpu(ncpu_arg, cpu_count, cpu_percent)

BudgetJobs == TruncDiv(EffectiveMem(mem_arg, available_mem), 3 * file_size)

Max2(a, b) == IF a > b THEN a ELSE b

Min2(a, b) == IF a < b THEN a ELSE b

\* C15: when the CPU budget and the memory-derived job limit are both at
\* least 1, planning completes with per_job_cpu = max(1, floor(budget / limit))
\* and n_jobs = min(budget, limit), so per_job_cpu >= 1 and
\* n_jobs * per_job_cpu never exceeds the CPU budget.
C15_ThreadsAndConcurrency ==
    (pc # "start" /\ file_size > 0 /\ BudgetCpu >= 1 /\ BudgetJobs >= 1) =>
        /\ pc = "planned" /\ error = "none"
        /\ per_job_cpu = Max2(1, BudgetCpu \div BudgetJobs)
        /\ n_jobs = Min2(BudgetCpu, BudgetJobs)
        /\ per_job_cpu >= 1
        /\ n_jobs * per_job_cpu <= BudgetCpu

C15_Witness ==
    /\ pc = "planned"
    /\ file_size > 0 /\ BudgetCpu = 3 /\ BudgetJobs = 2
    /\ n_jobs = 2 /\ per_job_cpu = 1

\* Main has been given both required options.
RequiredGiven == options.imagedir /\ options.metafits

\* C14 as stated: the process ends with status 1, nothing submitted, when
\* --imagedir or --metafits is missing, with status 1 when the function
\* raised, and with status 0 in every other case; never with another status.
C14_OnlyZeroOrOne ==
    m_pc = "exited" =>
        /\ result \in {0, 1}
        /\ ~RequiredGiven => (result = 1 /\ submitted = {})
        /\ (RequiredGiven /\ pc = "raised") => result = 1
        /\ (RequiredGiven /\ pc # "raised") => result = 0

\* C14 (amended): optparse ends the process with status 2 on a command line
\* it rejects and with 0 after --help, before main looks at the options.  On an
\* accepted command line the status is 1, with the function not called and
\* nothing submitted, when --imagedir or --metafits is missing; it is 1, with
\* the function not called, when evaluating --interpolate, --ncpu or --mem
\* raises an Exception, and the SystemExit's own status when that evaluation
\* exits; it is 1 when the function raised, and 0 when it returned, whether
\* or not a command failed.
C14_StatusByCase ==
    m_pc = "exited" =>
        IF cmdline = "rejected" THEN result = 2 /\ pc = "idle"
        ELSE IF cmdline = "help" THEN result = 0 /\ pc = "idle"
        ELSE IF ~RequiredGiven THEN result = 1 /\ pc = "idle" /\ submitted = {}
        ELSE IF options.values = "invalid" THEN result = 1 /\ pc = "idle"
        ELSE IF options.values = "exits" THEN result = 3 /\ pc = "idle"
        ELSE \/ pc = "raised" /\ error # "none" /\ result = 1
             \/ pc = "returned" /\ error = "none" /\ result = 0

C14_Witness ==
    /\ m_pc = "exited" /\ cmdline = "accepted" /\ RequiredGiven
    /\ pc = "raised" /\ error = "ZeroDivisionError"
    /\ result = 1

\* The commands handed to run_cmd so far in this run.
SubmittedCmds == {s.cmd : s \in submitted}

AllCmds == Range(cmd_list_1) \cup Range(cmd_list_2)

\* C11: with planned concurrency n_jobs, at most n_jobs commands run at the
\* same time in either phase; the --save_pb commands all come first, one per
\* coarse channel, no --pb_jones_file command is started before every
\* --save_pb command has ended, and a first run whose commands all succeed
\* returns as many outputs as there are per-channel images.
C11_AtMostNJobsAtOnce ==
    /\ pc \in {"primaries", "secondaries"} =>
           /\ Cardinality(running) <= n_jobs
           /\ \A j \in running : j \in 1..Len(CurrentList)
    /\ pc = "primaries" =>
           \A c \in SubmittedCmds : c.flag = "save_pb"
    /\ pc = "secondaries" =>
           /\ Range(cmd_list_1) \subseteq SubmittedCmds
           /\ \A j \in running : CurrentList[j].flag = "pb_jones_file"
    /\ (run = 1 /\ pc = "returned" /\ ~job_failed) =>
           /\ total_images = Cardinality(ChannelImages)
           /\ Len(cmd_list_1) = Cardinality(KeysOf(ChannelImages))
           /\ Len(cmd_list_2) = Cardinality(ChannelImages) - Len(cmd_list_1)

\* C12: the outputs are moved and the function returns only when every
\* command of both lists has been handed to run_cmd and has ended: none is
\* running at the return, and no output is left behind in the image directory.
C12_ReturnsAfterDrain ==
    (pc = "returned" /\ ~shortcut) =>
        /\ running = {}
        /\ SubmittedCmds = AllCmds
        /\ imagedir_out = {}
        /\ total_images = Cardinality(pbcor_images)

C12_Witness ==
    /\ pc = "returned" /\ ~shortcut
    /\ Len(cmd_list_1) >= 1 /\ Len(cmd_list_2) >= 2
    /\ total_images >= 2

\* C13: a command that exits non-zero raises nothing into the function and
\* does not end the batch: the function still hands every other command of
\* both lists to run_cmd and returns normally.
C13_FailureDoesNotAbort ==
    job_failed =>
        /\ error = "none"
        /\ pc \in {"primaries", "secondaries", "returned"}
        /\ pc = "returned" => Cardinality(SubmittedCmds) = Len(cmd_list_1) + Len(cmd_list_2)

C13_Witness ==
    /\ pc = "returned" /\ job_failed
    /\ Cardinality(SubmittedCmds) >= 3
    /\ total_images >= 2
    /\ \E c \in Range(cmd_list_1) : c.imagename \notin pbcor_images

--------------------------------------------------------------------------
(* Properties of the scripts written by create_batch_script_nonhpc. *)

BothMarkers(b) == SuccessFile(b) \in files /\ ErrorFile(b) \in files

ExactlyOneMarker(b) == (SuccessFile(b) \in files) # (ErrorFile(b) \in files)

\* The script generated for b has started executing.
Started(b) == spc[b] # "none"

\* C3: when the inner script writes its marker, it writes <..._0> if and
\* only if the job's command exited with status 0 and <..._error> if and only
\* if it exited non-zero.
C3_MarkerFollowsExitStatus ==
    [][\A b \in Basenames :
          (spc[b] = "if" /\ spc'[b] = "done") =>
              /\ (SuccessFile(b) \in files') <=> (cmd_status[b] = 0)
              /\ (ErrorFile(b) \in files') <=> (cmd_status[b] # 0)]_vars

\* C4: once the script of a job has started, its two markers never exist
\* together, and once the script has ended exactly one of them exists.
C4_OneMarkerPerJob ==
    \A b \in Basenames :
        /\ Started(b) => ~BothMarkers(b)
        /\ spc[b] = "done" => ExactlyOneMarker(b)

FinishedMarker(b) == SuccessFile(b) \in files \/ ErrorFile(b) \in files

\* C16: in one execution of the inner script of a job, the running marker
\* exists from before the command starts until after it has ended, it is
\* removed before a finished marker is created, the two never exist together,
\* and a finished marker exists only once the command has ended.
C16_RunningThenFinished ==
    \A b \in Basenames :
        /\ spc[b] \in {"cmd", "sleep", "assign", "rm"} => RunningFile(b) \in files
        /\ spc[b] \in {"touch", "cmd", "sleep", "assign", "rm", "if"} =>
               ~FinishedMarker(b)
        /\ spc[b] \in {"if", "done"} => RunningFile(b) \notin files
        /\ Started(b) => ~(RunningFile(b) \in files /\ FinishedMarker(b))
        /\ (Started(b) /\ FinishedMarker(b)) => (spc[b] = "done" /\ cmd_status[b] # -1)

C16_Witness ==
    \E b \in Basenames :
        /\ spc[b] = "done" /\ cmd_status[b] = 1
        /\ FinishedMarker(b)
        /\ RunningFile(b) \notin files
        /\ \E b2 \in Basenames \ {b} : spc[b2] = "sleep" /\ RunningFile(b2) \in files

\* C17: a call of create_batch_script_nonhpc for basename b removes no file
\* but the two finished markers of b, whatever the other basenames are
\* (one that has b as a proper prefix included), and leaves pids.txt as it was.
C17_RemovesOnlyOwnMarkers ==
    [][\A b \in Basenames :
          created'[b] = created[b] + 1 =>
              /\ (files \ files') \subseteq {SuccessFile(b), ErrorFile(b)}
              /\ npids' = npids]_vars

--------------------------------------------------------------------------
(* Properties of check_resource_availability and wait_for_resources. *)

\* At least one iteration of the loop has sampled the host.
Polled == w_count > 0 \/ w_pc = "returned"

\* The availability C8 states: free CPU at least the threshold, available
\* memory above the threshold, and swap above the threshold or not configured.
StatedAvailability(sn, cpu_thr, mem_thr) ==
    /\ 100 - sn.cpu >= cpu_thr
    /\ 100 * sn.mem_available > mem_thr * sn.mem_total
    /\ (sn.swap_total = 0 \/ 100 * sn.swap_free > mem_thr * sn.swap_total)

\* C8: check_resource_availability is true exactly when free CPU >= the cpu
\* threshold, available memory > the memory threshold, and available swap >
\* the memory threshold or no swap is configured.
C8_AvailabilityAsStated ==
    Polled =>
        (resource_available <=>
             StatedAvailability(snapshot, cpu_threshold, memory_threshold))

\* C9: wait_for_resources returns only from an iteration that found capacity;
\* it returns -1 when no file matched at call start, and otherwise the
\* strictly positive drop of the matching-file count since call start; never 0.
C9_ReturnsFreedJobs ==
    w_pc = "returned" =>
        /\ resource_available
        /\ w_new = w_files
        /\ w_ret # 0
        /\ IF w_start = 0
           THEN w_ret = -1
           ELSE /\ w_files < w_start
                /\ w_ret = w_start - w_files
                /\ w_ret > 0

C9_Witness ==
    /\ w_pc = "returned"
    /\ w_count >= 1
    /\ w_ret = 2

\* C10: the "waiting" notice is printed in the first iteration only, and the
\* call does not return in a behaviour in which no iteration finds capacity,
\* nor in one in which the matching-file count stays at or above a non-zero
\* count taken at call start.
C10_NoTimeout ==
    /\ [](w_printed = IF w_count >= 1 THEN 1 ELSE 0)
    /\ ([](~resource_available) => [](w_pc # "returned"))
    /\ ([](w_pc = "call" \/ (w_start > 0 /\ w_files >= w_start))
           => [](w_pc # "returned"))

C10_Witness ==
    /\ w_pc = "loop"
    /\ w_count = MaxPolls
    /\ w_printed = 1
    /\ ~resource_available
    /\ w_start > 0 /\ w_files >= w_start

====
